---- MODULE Spec2Model ----
(***************************************************************************)
(* SBX Fantasy backend (backend/pointsEngine.js, backend/server.js):       *)
(* the points engine, the results ingestion endpoint, the standings query  *)
(* and the default-admin bootstrap, over a store whose statements are      *)
(* queued by the handlers and executed later, one at a time.               *)
(***************************************************************************)
EXTENDS Integers, Sequences, FiniteSets, TLC

(***************************************************************************)
(* Bounds of the model.                                                    *)
(***************************************************************************)
MinPlaceOffset == 3   \* scored places start at -MinPlaceOffset
MaxPlace == 11        \* scored places end at MaxPlace
MaxReqs == 1          \* POST /api/results requests
MaxAthletes == 2      \* POST /api/athletes requests
MaxFail == 1          \* statements the store fails
MaxRegs == 2          \* POST /api/auth/register requests
MaxRestarts == 1      \* server restarts on the same db.sqlite

(***************************************************************************)
(* JavaScript values, as far as the server handles them: a type tag, the   *)
(* number, the string.                                                     *)
(***************************************************************************)
Num(n) == [t |-> "number", n |-> n, s |-> ""]
Str(s) == [t |-> "string", n |-> 0, s |-> s]
Undefined == [t |-> "undefined", n |-> 0, s |-> ""]
Null == [t |-> "null", n |-> 0, s |-> ""]
\* Object.prototype members are functions (or objects): truthy, not numbers.
Fun(s) == [t |-> "function", n |-> 0, s |-> s]

\* JavaScript truthiness, as used by `if (x)`, `!x` and `x || y`.
Truthy(v) ==
  CASE v.t = "number" -> v.n # 0
    [] v.t = "string" -> v.s # ""
    [] v.t \in {"undefined", "null"} -> FALSE
    [] OTHER -> TRUE

\* A property key: numbers are keyed by their decimal string.
ToPropertyKey(v) ==
  CASE v.t = "number" -> ToString(v.n)
    [] v.t = "string" -> v.s
    [] v.t = "undefined" -> "undefined"
    [] v.t = "null" -> "null"
    [] OTHER -> v.s

\* An element of the results array: an object {athleteId, place, time}, or
\* null.
Obj(a, p, tm) == [t |-> "object", athleteId |-> a, place |-> p, time |-> tm]
NullEntry == [t |-> "null", athleteId |-> Undefined, place |-> Undefined, time |-> Undefined]

\* r.place, r.athleteId, r.time: reading a property of null throws a
\* TypeError.
ThrowsOnRead(r) == r.t \in {"null", "undefined"}
GetPlace(r) == IF r.t = "object" THEN r.place ELSE Undefined
GetAthleteId(r) == IF r.t = "object" THEN r.athleteId ELSE Undefined
GetTime(r) == IF r.t = "object" THEN r.time ELSE Undefined

(***************************************************************************)
(* backend/pointsEngine.js                                                 *)
(***************************************************************************)
placePoints ==
  [k \in {"1", "2", "3", "4", "5", "6", "7", "8"} |->
     CASE k = "1" -> 100 [] k = "2" -> 80 [] k = "3" -> 65 [] k = "4" -> 55
       [] k = "5" -> 45 [] k = "6" -> 40 [] k = "7" -> 36 [] k = "8" -> 32]

\* Names every object inherits from Object.prototype.
ProtoKeys == {"constructor", "toString", "valueOf", "hasOwnProperty", "__proto__"}

\* placePoints[key]
PlacePointsLookup(key) ==
  IF key \in DOMAIN placePoints THEN Num(placePoints[key])
  ELSE IF key \in ProtoKeys THEN Fun(key)
  ELSE Undefined

\* pts += v with pts = 0: a number adds, anything else concatenates.
PlusFromZero(v) == IF v.t = "number" THEN Num(0 + v.n) ELSE Str("0" \o v.s)

calculatePointsForResult_OffByOne(result) ==
  LET v == PlacePointsLookup(ToPropertyKey(
             IF GetPlace(result).t = "number" THEN Num(GetPlace(result).n + 1)
             ELSE GetPlace(result)))
  IN IF Truthy(v) THEN PlusFromZero(v) ELSE Num(0)

\* Defined where reading result.place does not throw.
calculatePointsForResult(result) ==
  LET v == PlacePointsLookup(ToPropertyKey(GetPlace(result)))
  IN IF Truthy(v) THEN PlusFromZero(v) ELSE Num(0)

(***************************************************************************)
(* State.  The five tables of db.sqlite that the modelled endpoints touch, *)
(* the statements the handlers have handed to the sqlite3 driver and that  *)
(* have not run yet, and what the latest POST /api/results was answered.   *)
(***************************************************************************)
VARIABLES
  scoreIn, scoreOut, scorePc,   \* one call of calculatePointsForResult
  athletes,                     \* table athletes: row id = position
  results,                      \* table results
  fantasy_scores,               \* table fantasy_scores
  dbQueue,                      \* statements issued and not yet executed
  req,                          \* the latest POST /api/results and its answer
  nReqs, nPosts, nFail,         \* counters that bound the run
  standingsResp,                \* the GET /api/standings answer being sent, if any
  users,                        \* table users
  bootPc,                       \* position of the default-admin bootstrap
  regs,                         \* register requests waiting for bcrypt.hash
  nRegs, nRestarts

scoreVars == <<scoreIn, scoreOut, scorePc>>
storeVars == <<athletes, results, fantasy_scores, dbQueue, req, nReqs, nPosts, nFail, standingsResp>>
bootVars == <<users, bootPc, regs, nRegs, nRestarts>>
vars == <<scoreVars, storeVars, bootVars>>

\* No GET /api/standings answer is being sent.
NoAnswer == [sent |-> FALSE, rows |-> <<>>]

NoReq ==
  [id |-> 0, auth |-> [present |-> FALSE, valid |-> FALSE, role |-> ""],
   raceId |-> Undefined, isArray |-> FALSE, items |-> <<>>,
   resp |-> 0, handled |-> 0, doneR |-> 0, doneF |-> 0, failed |-> FALSE,
   before |-> <<>>]

InitScoreIdle ==
  /\ scoreIn = NullEntry
  /\ scoreOut = Undefined
  /\ scorePc = "idle"

InitStoreIdle ==
  /\ athletes = <<>>
  /\ results = <<>>
  /\ fantasy_scores = <<>>
  /\ dbQueue = <<>>
  /\ req = NoReq
  /\ nReqs = 0
  /\ nPosts = 0
  /\ nFail = 0
  /\ standingsResp = NoAnswer

InitBootIdle ==
  /\ users = <<>>
  /\ bootPc = "idle"
  /\ regs = <<>>
  /\ nRegs = 0
  /\ nRestarts = 0

(***************************************************************************)
(* The points engine on its own: one call on one result record.            *)
(***************************************************************************)
ScorePlaces == {Num(p) : p \in (0 - MinPlaceOffset)..MaxPlace} \cup {Undefined, Null}
ScoreInputs == {Obj(Num(a), p, tm) : a \in {1, 2}, p \in ScorePlaces, tm \in {Undefined, Num(42)}}

InitScore ==
  /\ scoreIn \in ScoreInputs
  /\ scoreOut = Undefined
  /\ scorePc = "call"
  /\ InitStoreIdle
  /\ InitBootIdle

Score ==
  /\ scorePc = "call"
  /\ ~ThrowsOnRead(scoreIn)
  /\ scoreOut' = calculatePointsForResult(scoreIn)
  /\ scorePc' = "returned"
  /\ UNCHANGED <<scoreIn, storeVars, bootVars>>

NextScore == Score

SpecScore == InitScore /\ [][NextScore]_vars

(***************************************************************************)
(* backend/server.js: token and role middleware.                           *)
(* A request's Authorization header: absent, or a bearer token that        *)
(* jwt.verify accepts or not; an accepted token carries a role.            *)
(***************************************************************************)
NoHeader == [present |-> FALSE, valid |-> FALSE, role |-> ""]
BadToken == [present |-> TRUE, valid |-> FALSE, role |-> ""]
TokenOf(role) == [present |-> TRUE, valid |-> TRUE, role |-> role]
Auths == {NoHeader, BadToken, TokenOf("user"), TokenOf("admin")}

\* The status authMiddleware answers with, 0 when it calls next().
authMiddleware(auth) ==
  IF ~auth.present THEN 401
  ELSE IF ~auth.valid THEN 401
  ELSE 0

requireAdmin_AnyUser(auth) == 0

\* The status requireAdmin answers with, 0 when it calls next().
requireAdmin(auth) == IF auth.role # "admin" THEN 403 ELSE 0

(***************************************************************************)
(* POST /api/results                                                       *)
(***************************************************************************)
BodyRejected_BothMissing(raceId, isArray) == ~Truthy(raceId) /\ ~isArray

\* if (!raceId || !Array.isArray(results)) return 400
BodyRejected(raceId, isArray) == ~Truthy(raceId) \/ ~isArray

\* r.time || null
TimeOrNull(tm) == IF Truthy(tm) THEN tm ELSE Null

\* The two INSERTs the forEach body issues for entry r, in the order issued.
EntryStmts(raceId, r, id) ==
  LET pts == calculatePointsForResult(r)
  IN << [table |-> "results", req |-> id,
         row |-> [raceId |-> raceId, athleteId |-> GetAthleteId(r), place |-> GetPlace(r),
                  time |-> TimeOrNull(GetTime(r)), points |-> pts]],
        [table |-> "fantasy_scores", req |-> id,
         row |-> [athleteId |-> GetAthleteId(r), raceId |-> raceId, points |-> pts]] >>

\* results.forEach: the entries handled before one throws (all, if none does).
RECURSIVE Handled(_, _)
Handled(items, k) ==
  IF k > Len(items) THEN Len(items)
  ELSE IF ThrowsOnRead(items[k]) THEN k - 1
  ELSE Handled(items, k + 1)

RECURSIVE BatchStmts(_, _, _, _)
BatchStmts(raceId, items, n, id) ==
  IF n = 0 THEN <<>>
  ELSE BatchStmts(raceId, items, n - 1, id) \o EntryStmts(raceId, items[n], id)

\* GROUP BY a.id with IFNULL(SUM(fs.points),0), before it is ordered.
SqlNumeric(v) == IF v.t = "number" THEN v.n ELSE 0

RECURSIVE SqlSum(_)
\* SUM over a sequence of column values: NULLs are skipped, text counts by
\* its numeric prefix, and the sum of no value at all is NULL.
SqlSum(vals) ==
  IF vals = <<>> THEN Null
  ELSE LET rest == SqlSum(Tail(vals))
           v == Head(vals)
       IN IF v.t = "null" THEN rest
          ELSE IF rest.t = "null" THEN Num(SqlNumeric(v))
          ELSE Num(SqlNumeric(v) + rest.n)

IfNull(v, d) == IF v.t = "null" THEN d ELSE v

RECURSIVE FsPointsOf(_, _)
\* The points of the fantasy_scores rows that join athlete id a, in row order.
FsPointsOf(fs, a) ==
  IF fs = <<>> THEN <<>>
  ELSE IF Head(fs).athleteId = Num(a) THEN <<Head(fs).points>> \o FsPointsOf(Tail(fs), a)
  ELSE FsPointsOf(Tail(fs), a)

\* FROM athletes a JOIN fantasy_scores fs ON fs.athleteId = a.id: an athlete
\* with no fantasy_scores row has no joined row at all.
InnerJoin(ath, fs) ==
  [a \in {i \in DOMAIN ath : FsPointsOf(fs, i) # <<>>} |-> FsPointsOf(fs, a)]

\* FROM athletes a LEFT JOIN fantasy_scores fs ON fs.athleteId = a.id: the
\* fs.points column of the joined rows of each athlete; an athlete with no
\* fantasy_scores row has one joined row whose fs columns are NULL.
LeftJoin(ath, fs) ==
  [a \in DOMAIN ath |->
     IF FsPointsOf(fs, a) = <<>> THEN <<Null>> ELSE FsPointsOf(fs, a)]

\* The grouped rows of the standings query, by athlete id.
StandingsRows(ath, fs) ==
  LET j == LeftJoin(ath, fs)
  IN [a \in DOMAIN j |->
        [athleteId |-> a, name |-> ath[a].name, country |-> ath[a].country,
         totalPoints |-> IfNull(SqlSum(j[a]), Num(0)).n]]

\* ORDER BY totalPoints DESC: any order of the grouped rows whose totals do
\* not increase (SQL leaves the order among equal totals open).
StandingsOrders(rows) ==
  LET n == Cardinality(DOMAIN rows)
  IN {s \in [1..n -> DOMAIN rows] :
        /\ \A i, k \in 1..n : i # k => s[i] # s[k]
        /\ \A i \in 1..n : i < n => rows[s[i]].totalPoints >= rows[s[i + 1]].totalPoints}

RECURSIVE DirectTotal(_, _)
\* The points of the fantasy_scores rows of athlete a, added up row by row.
DirectTotal(fs, a) ==
  IF fs = <<>> THEN 0
  ELSE (IF Head(fs).athleteId = Num(a) /\ Head(fs).points.t = "number"
        THEN Head(fs).points.n ELSE 0) + DirectTotal(Tail(fs), a)

\* Ghost: the total of every athlete at the moment a request is handled.
TotalsNow == [a \in DOMAIN athletes |-> DirectTotal(fantasy_scores, a)]

PostResults(auth, raceId, isArray, items) ==
  /\ nReqs < MaxReqs
  /\ nReqs' = nReqs + 1
  /\ LET id == nReqs + 1
         status == IF authMiddleware(auth) # 0 THEN authMiddleware(auth)
                   ELSE IF requireAdmin(auth) # 0 THEN requireAdmin(auth)
                   ELSE IF BodyRejected(raceId, isArray) THEN 400
                   ELSE IF Handled(items, 1) < Len(items) THEN 500
                   ELSE 200
         n == IF status \in {200, 500} THEN Handled(items, 1) ELSE 0
     IN /\ dbQueue' = dbQueue \o BatchStmts(raceId, items, n, id)
        /\ req' = [id |-> id, auth |-> auth, raceId |-> raceId, isArray |-> isArray,
                   items |-> IF status \in {200, 500} THEN items ELSE <<>>,
                   resp |-> status, handled |-> n,
                   doneR |-> 0, doneF |-> 0, failed |-> FALSE, before |-> TotalsNow]
  /\ standingsResp' = NoAnswer
  /\ UNCHANGED <<athletes, results, fantasy_scores, nPosts, nFail>>

(***************************************************************************)
(* POST /api/athletes                                                      *)
(***************************************************************************)
PostAthletes(auth, name, country) ==
  /\ nPosts < MaxAthletes
  /\ nPosts' = nPosts + 1
  /\ dbQueue' =
       IF authMiddleware(auth) = 0 /\ requireAdmin(auth) = 0
       THEN Append(dbQueue, [table |-> "athletes", req |-> 0,
                             row |-> [name |-> name, country |-> country]])
       ELSE dbQueue
  /\ standingsResp' = NoAnswer
  /\ UNCHANGED <<athletes, results, fantasy_scores, req, nReqs, nFail>>

(***************************************************************************)
(* GET /api/standings                                                      *)
(***************************************************************************)
GetStandings ==
  /\ \E s \in StandingsOrders(StandingsRows(athletes, fantasy_scores)) :
       standingsResp' =
         [sent |-> TRUE,
          rows |-> [i \in DOMAIN s |-> StandingsRows(athletes, fantasy_scores)[s[i]]]]
  /\ UNCHANGED <<athletes, results, fantasy_scores, dbQueue, req, nReqs, nPosts, nFail>>

(***************************************************************************)
(* The sqlite3 driver: the statements issued run later, one at a time, in  *)
(* the order they were issued; none of the INSERTs above has a callback.   *)
(***************************************************************************)
\* Ghost bookkeeping of the latest request's statements.
Account(r, stmt, ok) ==
  IF stmt.req # r.id \/ r.id = 0 THEN r
  ELSE IF ~ok THEN [r EXCEPT !.failed = TRUE]
  ELSE IF stmt.table = "results" THEN [r EXCEPT !.doneR = @ + 1]
  ELSE [r EXCEPT !.doneF = @ + 1]

StoreRun ==
  /\ dbQueue # <<>>
  /\ LET stmt == Head(dbQueue)
     IN /\ athletes' = IF stmt.table = "athletes" THEN Append(athletes, stmt.row) ELSE athletes
        /\ results' = IF stmt.table = "results" THEN Append(results, stmt.row) ELSE results
        /\ fantasy_scores' =
             IF stmt.table = "fantasy_scores" THEN Append(fantasy_scores, stmt.row)
             ELSE fantasy_scores
        /\ req' = Account(req, stmt, TRUE)
  /\ dbQueue' = Tail(dbQueue)
  /\ standingsResp' = NoAnswer
  /\ UNCHANGED <<nReqs, nPosts, nFail>>

\* The store fails the statement (disk full, database locked, I/O error):
\* the row is not written, and the statements behind it still run.
StoreFail ==
  /\ dbQueue # <<>>
  /\ nFail < MaxFail
  /\ nFail' = nFail + 1
  /\ req' = Account(req, Head(dbQueue), FALSE)
  /\ dbQueue' = Tail(dbQueue)
  /\ standingsResp' = NoAnswer
  /\ UNCHANGED <<athletes, results, fantasy_scores, nReqs, nPosts>>

\* The inputs the requests are drawn from.
RaceIds == {Undefined, Num(0), Num(1)}
E11 == Obj(Num(1), Num(1), Undefined)            \* {athleteId: 1, place: 1}
E22 == Obj(Num(2), Num(2), Undefined)            \* {athleteId: 2, place: 2}
E2u == Obj(Num(2), Undefined, Undefined)         \* {athleteId: 2}
E1c == Obj(Num(1), Str("constructor"), Num(42))  \* {athleteId: 1, place: "constructor", time: 42}
Batches == {<<>>, <<E11>>, <<E11, E11>>, <<E11, E22>>, <<E11, NullEntry, E22>>, <<E2u, E1c, E22>>}

Init ==
  /\ InitScoreIdle
  /\ InitStoreIdle
  /\ InitBootIdle

Next ==
  \/ \E auth \in Auths, raceId \in RaceIds, items \in Batches :
       /\ PostResults(auth, raceId, TRUE, items)
       /\ UNCHANGED <<scoreVars, bootVars>>
  \/ \E auth \in Auths, raceId \in RaceIds :
       /\ PostResults(auth, raceId, FALSE, <<>>)
       /\ UNCHANGED <<scoreVars, bootVars>>
  \/ \E auth \in Auths :
       /\ PostAthletes(auth, "Jane Doe", "USA")
       /\ UNCHANGED <<scoreVars, bootVars>>
  \/ GetStandings /\ UNCHANGED <<scoreVars, bootVars>>
  \/ StoreRun /\ UNCHANGED <<scoreVars, bootVars>>
  \/ StoreFail /\ UNCHANGED <<scoreVars, bootVars>>

Spec == Init /\ [][Next]_vars

(***************************************************************************)
(* The default-admin bootstrap and POST /api/auth/register, on the users   *)
(* table (email TEXT UNIQUE, role TEXT DEFAULT 'user').                    *)
(***************************************************************************)
adminEmail == "admin@sbx.local"

HasEmail(us, email) == \E i \in DOMAIN us : us[i].email = email

\* The statement server.js issues at startup, inside db.serialize.
BootGet == [table |-> "users", op |-> "get", req |-> 0, row |-> [email |-> adminEmail]]

InitBoot ==
  /\ InitScoreIdle
  /\ athletes = <<>>
  /\ results = <<>>
  /\ fantasy_scores = <<>>
  /\ req = NoReq
  /\ nReqs = 0
  /\ nPosts = 0
  /\ nFail = 0
  /\ standingsResp = NoAnswer
  /\ users = <<>>
  /\ bootPc = "lookup"
  /\ dbQueue = <<BootGet>>
  /\ regs = <<>>
  /\ nRegs = 0
  /\ nRestarts = 0

storeRest == <<athletes, results, fantasy_scores, req, nReqs, nPosts, nFail, standingsResp>>

\* db.get('SELECT * FROM users WHERE email = ?') runs and its callback with
\* it: a row found ends the bootstrap, no row starts bcrypt.hash.
BootLookup ==
  /\ dbQueue # <<>>
  /\ Head(dbQueue).op = "get"
  /\ bootPc = "lookup"
  /\ bootPc' = IF HasEmail(users, adminEmail) THEN "done" ELSE "hash"
  /\ dbQueue' = Tail(dbQueue)
  /\ UNCHANGED <<users, regs, nRegs, nRestarts>>

\* bcrypt.hash resolves: the INSERT of the admin row is issued, no callback.
BootHashed ==
  /\ bootPc = "hash"
  /\ bootPc' = "insert"
  /\ dbQueue' = Append(dbQueue, [table |-> "users", op |-> "run", req |-> 0,
                                 row |-> [email |-> adminEmail, name |-> "Administrator",
                                          role |-> "admin"]])
  /\ UNCHANGED <<users, regs, nRegs, nRestarts>>

\* POST /api/auth/register
Register(email, password, name) ==
  /\ nRegs < MaxRegs
  /\ nRegs' = nRegs + 1
  /\ regs' = Append(regs,
       IF ~Truthy(email) \/ ~Truthy(password)
       THEN [email |-> email, name |-> name, pc |-> "done", resp |-> 400]
       ELSE [email |-> email, name |-> name, pc |-> "hash", resp |-> 0])
  /\ UNCHANGED <<users, bootPc, dbQueue, nRestarts>>

\* await bcrypt.hash(password, 10) resolves: the INSERT is issued.
RegisterHashed(k) ==
  /\ regs[k].pc = "hash"
  /\ regs' = [regs EXCEPT ![k].pc = "insert"]
  /\ dbQueue' = Append(dbQueue, [table |-> "users", op |-> "run", req |-> k,
                                 row |-> [email |-> regs[k].email.s,
                                          name |-> IF Truthy(regs[k].name) THEN regs[k].name.s ELSE "",
                                          role |-> "user"]])
  /\ UNCHANGED <<users, bootPc, nRegs, nRestarts>>

\* INSERT INTO users: email is UNIQUE, a second row with it is refused.
UsersInsert(us, row) == IF HasEmail(us, row.email) THEN us ELSE Append(us, row)

\* The store runs the INSERT at the head of the queue; the register
\* handler's callback answers 400 on an error and a token otherwise, the
\* bootstrap's INSERT has no callback.
UsersRun ==
  /\ dbQueue # <<>>
  /\ Head(dbQueue).op = "run"
  /\ LET stmt == Head(dbQueue)
         ok == ~HasEmail(users, stmt.row.email)
     IN /\ users' = UsersInsert(users, stmt.row)
        /\ bootPc' = IF stmt.req = 0 THEN "done" ELSE bootPc
        /\ regs' = IF stmt.req = 0 THEN regs
                   ELSE [regs EXCEPT ![stmt.req].pc = "done",
                                     ![stmt.req].resp = IF ok THEN 200 ELSE 400]
  /\ dbQueue' = Tail(dbQueue)
  /\ UNCHANGED <<nRegs, nRestarts>>

\* The process stops and server.js starts again on the same db.sqlite:
\* what was in memory is gone, the tables are kept.
Restart ==
  /\ nRestarts < MaxRestarts
  /\ nRestarts' = nRestarts + 1
  /\ bootPc' = "lookup"
  /\ dbQueue' = <<BootGet>>
  /\ regs' = <<>>
  /\ UNCHANGED <<users, nRegs>>

RegEmails == {Undefined, Str(adminEmail), Str("a@x.com")}
RegPasswords == {Undefined, Str("pw123")}

NextBoot ==
  \/ BootLookup /\ UNCHANGED <<scoreVars, storeRest>>
  \/ BootHashed /\ UNCHANGED <<scoreVars, storeRest>>
  \/ \E email \in RegEmails, password \in RegPasswords :
       Register(email, password, Undefined) /\ UNCHANGED <<scoreVars, storeRest>>
  \/ \E k \in DOMAIN regs : RegisterHashed(k) /\ UNCHANGED <<scoreVars, storeRest>>
  \/ UsersRun /\ UNCHANGED <<scoreVars, storeRest>>
  \/ Restart /\ UNCHANGED <<scoreVars, storeRest>>

SpecBoot == InitBoot /\ [][NextBoot]_vars

(***************************************************************************)
(* Properties.                                                             *)
(***************************************************************************)

\* C1: in every reachable state, every results row has exactly one
\* fantasy_scores row with the same athleteId, raceId and points.
C1_OneScorePerResult ==
  \A i \in DOMAIN results :
    Cardinality({j \in DOMAIN fantasy_scores :
                   /\ fantasy_scores[j].athleteId = results[i].athleteId
                   /\ fantasy_scores[j].raceId = results[i].raceId
                   /\ fantasy_scores[j].points = results[i].points}) = 1

\* C2: an answer of GET /api/standings has exactly one entry per athletes
\* row, carrying that row's name and country, and its totalPoints is the sum
\* of the points of the fantasy_scores rows of that athlete (0 without any).
C2_StandingsSummation ==
  standingsResp.sent =>
    /\ Len(standingsResp.rows) = Len(athletes)
    /\ \A a \in DOMAIN athletes :
         \E i \in DOMAIN standingsResp.rows :
           /\ standingsResp.rows[i].athleteId = a
           /\ standingsResp.rows[i].name = athletes[a].name
           /\ standingsResp.rows[i].country = athletes[a].country
           /\ standingsResp.rows[i].totalPoints = DirectTotal(fantasy_scores, a)
           /\ \A k \in DOMAIN standingsResp.rows :
                standingsResp.rows[k].athleteId = a => k = i

\* An answer that lists an athlete with two scored rows and one with none.
C2_Witness ==
  /\ standingsResp.sent
  /\ Len(standingsResp.rows) = 2
  /\ standingsResp.rows[1].totalPoints = 200
  /\ standingsResp.rows[2].totalPoints = 0
  /\ FsPointsOf(fantasy_scores, standingsResp.rows[2].athleteId) = <<>>
  /\ Len(FsPointsOf(fantasy_scores, standingsResp.rows[1].athleteId)) = 2

\* The step that handles a POST /api/results request.
ResultsHandled == req'.id # req.id

\* C3: a POST /api/results without a token is answered 401, one with a valid
\* token whose role is not admin is answered 403, and the step issues no
\* statement and changes neither results nor fantasy_scores.
C3_Unauthorized ==
  [][(ResultsHandled /\ (~req'.auth.present \/ (req'.auth.valid /\ req'.auth.role # "admin")))
       => /\ req'.resp = (IF req'.auth.present THEN 403 ELSE 401)
          /\ results' = results
          /\ fantasy_scores' = fantasy_scores
          /\ dbQueue' = dbQueue]_vars

\* A registered user's token was refused while statements were pending.
C3_Witness ==
  /\ req.id # 0
  /\ req.auth = TokenOf("user")
  /\ req.resp = 403
  /\ req.handled = 0
  /\ dbQueue # <<>>

\* C4: an admin POST /api/results whose raceId is absent or whose results
\* is not an array is answered 400, and the step issues no statement and
\* changes neither results nor fantasy_scores.
C4_BadBodyRejected ==
  [][(ResultsHandled /\ req'.auth = TokenOf("admin")
        /\ (req'.raceId.t = "undefined" \/ ~req'.isArray))
       => /\ req'.resp = 400
          /\ results' = results
          /\ fantasy_scores' = fantasy_scores
          /\ dbQueue' = dbQueue]_vars

\* An admin's batch without raceId was refused while an athlete existed.
C4_Witness ==
  /\ req.id # 0
  /\ req.auth = TokenOf("admin")
  /\ req.raceId = Undefined
  /\ req.isArray
  /\ req.resp = 400
  /\ athletes # <<>>

\* C5: a request one of whose INSERTs failed in the store is answered with
\* a failure and not with the success confirmation.
C5_FailureSurfaced == req.failed => req.resp = 500

\* C6: a returned call of calculatePointsForResult gave the table's value
\* for places 1..8 and 0 for every other place, and the table's values do
\* not increase with the place.
C6_PlaceTable ==
  LET table == <<100, 80, 65, 55, 45, 40, 36, 32>>
      p == scoreIn.place
  IN /\ scorePc = "returned" =>
          scoreOut = Num(IF p.t = "number" /\ p.n \in 1..8 THEN table[p.n] ELSE 0)
     /\ \A i \in 1..7 : table[i] >= table[i + 1]

\* A call with place 8 returned 32.
C6_Witness ==
  /\ scorePc = "returned"
  /\ scoreIn.place = Num(8)
  /\ scoreOut = Num(32)

\* C7: in an accepted batch every entry is scored with a non-negative
\* integer without a failure, and every entry's rows are issued.
C7_ScoringNeverAborts ==
  (req.id # 0 /\ req.resp \in {200, 500}) =>
    /\ req.resp = 200
    /\ req.handled = Len(req.items)
    /\ \A k \in DOMAIN req.items :
         /\ ~ThrowsOnRead(req.items[k])
         /\ calculatePointsForResult(req.items[k]).t = "number"
         /\ calculatePointsForResult(req.items[k]).n >= 0

\* C8: once the batch [{athleteId:1, place:1}, {athleteId:2, place:2}] is
\* confirmed, with athletes 1 and 2 present when it was submitted, standings
\* show athlete 1 at +100 and athlete 2 at +80 over their totals before it,
\* and every other athlete unchanged.
C8_RoundTrip ==
  (req.resp = 200 /\ req.items = <<E11, E22>> /\ {1, 2} \subseteq DOMAIN req.before) =>
    \A a \in DOMAIN req.before :
      StandingsRows(athletes, fantasy_scores)[a].totalPoints =
        req.before[a] + (IF a = 1 THEN 100 ELSE IF a = 2 THEN 80 ELSE 0)

\* C9: once the bootstrap has finished, a users row with email
\* admin@sbx.local and role admin exists.
C9_AdminBootstrapped ==
  bootPc = "done" =>
    \E i \in DOMAIN users : users[i].email = adminEmail /\ users[i].role = "admin"

\* C10: when the success confirmation has been sent, one results row and
\* one fantasy_scores row have been stored for every entry of the batch.
C10_ConfirmedMeansStored ==
  (req.id # 0 /\ req.resp = 200) =>
    /\ req.doneR = Len(req.items)
    /\ req.doneF = Len(req.items)

====
